\* ---- lifecycle specification: the lock-level steps without the state
\* command, under the scheduling the Go runtime gives while the process
\* lives: a goroutine that can take its next step eventually takes it, and
\* main, once it has left the command loop, runs the shutdown to its end.
\* When main has returned (pcMain = "done", main.go 390-391) the process
\* exits and no goroutine is scheduled any more.

---- MODULE Spec2Model ----
(***************************************************************************)
(* Total-order broadcast simulator (src/ntp-sync/main.go, second program   *)
(* of the file, lines 63-391): per-node Lamport clock, the two staged      *)
(* delivery buffers with the wait threshold, the broadcaster's delivery    *)
(* legs, the node's two goroutines and the driver's commands.              *)
(***************************************************************************)
EXTENDS Integers, Sequences, FiniteSets, TLC

\* ------------------------------------------------------------------ bounds
MaxNodes == 2    \* largest node count the driver enters at startup
MaxSends == 4    \* broadcast commands issued in one run
MaxLegs  == 6    \* delivery goroutines spawned in one run
MaxTicks == 1    \* iterations of the tick loops, over all nodes
MaxConcSends == 4  \* broadcast commands in the lock-level specification
MaxConcLegs == 4   \* delivery goroutines in the lock-level specification
MaxJamSends == 2   \* broadcast commands in the jam specification
MaxJamLegs == 2    \* delivery goroutines in the jam specification
MaxJams == 2       \* jam commands in the jam specification
MaxSeqSends == 5   \* broadcast commands in the sequence-number variant
MaxSeqLegs == 8    \* delivery goroutines in the sequence-number variant

\* payloads the driver types, one per broadcast command
Payload == <<"A", "B", "C", "D", "E", "F", "G", "H", "I", "J">>

\* base latencies the driver types in the jam command
JamLatency == {0, 300}

VARIABLES
    participants,   \* pool.participants (nodeCount read at startup)
    nodes,          \* nodes[i]: the fields of node i
    legs,           \* delivery goroutines that have not yet handed over their message
    nsent,          \* broadcast commands issued so far
    pcRecv,         \* position of each node's receive goroutine
    received,       \* history: messages each node took from its channel, in order
    emitted,        \* history: per node, the log lines of each flush, one sequence per flush
    ticks,          \* history: iterations each node's tick loop has run
    running,        \* nodes[i].running
    aliveCount,     \* pool.aliveCount
    pcTick,         \* position of each node's tick (lifecycle) goroutine
    pcMain,         \* position of main
    mainI,          \* main's loop index i (state command, stop loop)
    cur,            \* the message m each receive goroutine holds
    flushM,         \* the message m that flush has removed and not yet printed
    tMu,            \* holder of nodes[i].tMu ("" when free)
    tWaitMu,        \* holder of nodes[i].tWaitMu
    bufferMu,       \* holder of nodes[i].bufferMu
    receivedAtStop, \* history: Len(received[i]) when nodes[i].stop() was called
    networkJam,     \* networkJam[source][target]
    njam,           \* jam commands issued so far
    spawned,        \* delivery goroutines that have not yet computed their latency
    latency,        \* history: the jam term each delivery goroutine read
    seqNodes,       \* sequence-number variant: the fields of each node
    seqLegs,        \* sequence-number variant: delivery goroutines not yet handed over
    seqReceived     \* history: messages each node of the variant took, in order

protoVars == <<nodes, legs, nsent, pcRecv, received, emitted, ticks>>
lifeVars == <<running, aliveCount, pcTick, pcMain, mainI>>
handVars == <<cur, flushM>>
lockVars == <<handVars, tMu, tWaitMu, bufferMu>>
jamVars == <<networkJam, njam, spawned, latency>>
seqVars == <<seqNodes, seqLegs, seqReceived>>
extVars == <<receivedAtStop, jamVars, seqVars>>
vars == <<participants, protoVars, lifeVars, lockVars, extVars>>

Node == 0 .. (participants - 1)

\* ------------------------------------------------------------ pure helpers

\* type message
message(sender, t, data) == [sender |-> sender, t |-> t, data |-> data]

\* newNode
newNode(id) ==
    [id |-> id, primaryBuffer |-> <<>>, secondaryBuffer |-> <<>>,
     tWait |-> 0, t |-> 0, l |-> <<>>]

\* tick loop body: n.t++
tick(s) == [s EXCEPT !.t = @ + 1]

\* mutant: the clock is set from the message without comparing
syncClock_Assign(s, m) == [s EXCEPT !.t = m.t + 1]

\* mutant: the increment after the comparison is missing
syncClock_NoIncrement(s, m) == [s EXCEPT !.t = IF m.t > s.t THEN m.t ELSE s.t]

\* receive, clock part: if m.t > n.t { n.t = m.t }; n.t++
syncClock(s, m) == [s EXCEPT !.t = (IF m.t > s.t THEN m.t ELSE s.t) + 1]

\* queue, target choice: TRUE when the message goes to the primary buffer
toPrimary(s, m) ==
    IF Len(s.primaryBuffer) > 0
    THEN m.t < s.tWait
    ELSE TRUE

\* mutant: every queued message resets tWait
queueWait_Always(s, m) == m.t

\* queue, threshold update: only an empty primary buffer resets tWait
queueWait(s, m) ==
    IF Len(s.primaryBuffer) > 0 THEN s.tWait ELSE m.t

\* mutant: the scan also stops at an equal timestamp
mark_BeforeEqual(target, m, i) ==
    IF \E k \in i .. Len(target) : m.t <= target[k].t
    THEN CHOOSE k \in i .. Len(target) :
             /\ m.t <= target[k].t
             /\ \A j \in i .. (k - 1) : m.t > target[j].t
    ELSE Len(target) + 1

\* queue, scan: index of the first element with a greater timestamp,
\* Len(target) + 1 when the scan ends with mark = nil
RECURSIVE mark(_, _, _)
mark(target, m, i) ==
    IF i > Len(target) THEN i
    ELSE IF m.t < target[i].t THEN i
    ELSE mark(target, m, i + 1)

\* mutant: always PushBack
insert_PushBack(target, m) == Append(target, m)

\* queue, InsertBefore(m, mark) / PushBack(m)
insert(target, m) ==
    LET k == mark(target, m, 1)
    IN  SubSeq(target, 1, k - 1) \o <<m>> \o SubSeq(target, k, Len(target))

\* node.queue
queue(s, m) ==
    IF toPrimary(s, m)
    THEN [s EXCEPT !.tWait = queueWait(s, m),
                   !.primaryBuffer = insert(@, m)]
    ELSE [s EXCEPT !.tWait = queueWait(s, m),
                   !.secondaryBuffer = insert(@, m)]

\* node.synchronized, the loop that fills the map of mentioned senders
RECURSIVE mentioned(_, _, _)
mentioned(buffer, i, acc) ==
    IF i > Len(buffer) THEN acc
    ELSE mentioned(buffer, i + 1, acc \cup {buffer[i].sender})

\* mutant: the node does not wait for one of the senders
synchronized_ExceptOne(s, n) ==
    Cardinality(mentioned(s.secondaryBuffer, 1, {})) >= n - 1

\* mutant: counts the messages of secondary, not their senders
synchronized_CountMessages(s, n) == Len(s.secondaryBuffer) = n

\* mutant: senders in primary count too
synchronized_BothBuffers(s, n) ==
    Cardinality(mentioned(s.primaryBuffer \o s.secondaryBuffer, 1, {})) = n

\* node.synchronized
synchronized(s, n) ==
    Cardinality(mentioned(s.secondaryBuffer, 1, {})) = n

\* node.flush, first loop: n.primaryBuffer.Remove(n.primaryBuffer.Front())
removeFront(s) == [s EXCEPT !.primaryBuffer = Tail(@)]

\* node.flush, first loop, the section under tMu for the removed message
\* m: advance the clock, print the delivery line
deliver(s, m) ==
    [s EXCEPT !.t = @ + 1,
              !.l = Append(@, [node |-> s.id, clock |-> s.t + 1,
                               data |-> m.data, sender |-> m.sender,
                               t |-> m.t])]

\* mutant: the moved message does not raise tWait
promote_KeepWait(s) ==
    LET m == Head(s.secondaryBuffer)
    IN  [s EXCEPT !.secondaryBuffer = Tail(@),
                  !.primaryBuffer = Append(@, m)]

\* mutant: the second loop removes a message without PushBack into primary
promote_Drop(s) ==
    LET m == Head(s.secondaryBuffer)
    IN  [s EXCEPT !.secondaryBuffer = Tail(@),
                  !.tWait = IF m.t > @ THEN m.t ELSE @]

\* node.flush, one iteration of the second loop
promote(s) ==
    LET m == Head(s.secondaryBuffer)
    IN  [s EXCEPT !.secondaryBuffer = Tail(@),
                  !.tWait = IF m.t > @ THEN m.t ELSE @,
                  !.primaryBuffer = Append(@, m)]

\* mutant: flush ends after the first loop
flushSecondary_Skip(s) == s

\* node.flush, second loop
RECURSIVE flushSecondary(_)
flushSecondary(s) ==
    IF Len(s.secondaryBuffer) = 0 THEN s ELSE flushSecondary(promote(s))

\* broadcaster: one delivery goroutine per node
broadcaster(m, n) == { [m |-> m, to |-> i] : i \in 0 .. (n - 1) }

\* mutant: the command overwrites the whole row of the source
setJam_Row(jam, source, target, d) ==
    [jam EXCEPT ![source] = [j \in DOMAIN @ |-> d]]

\* main, jam command: networkJam[source][target] = latency
setJam(jam, source, target, d) == [jam EXCEPT ![source][target] = d]

\* broadcaster, delivery goroutine: the jam term of the latency,
\* networkJam[m.sender][i]
jamOf(jam, m, i) == jam[m.sender][i]

\* ---- sequence-number variant (src/unnamed/part_001)

\* type message of the variant
seqMessage(sender, sequence, data) ==
    [sender |-> sender, sequence |-> sequence, data |-> data]

\* newNode of the variant: delivered = make([]int, pool.participants)
seqNewNode(id, n) ==
    [id |-> id, sendSeq |-> 0, delivered |-> [j \in 0 .. (n - 1) |-> 0],
     buffer |-> <<>>, l |-> <<>>]

\* node.send of the variant: the message that is broadcast
seqSendMessage(s, data) == seqMessage(s.id, s.sendSeq, data)

\* node.send of the variant: n.sendSeq++
seqSend(s) == [s EXCEPT !.sendSeq = @ + 1]

\* node.receive, inner loop: index of the first buffered message whose
\* sequence equals delivered[sender], 0 when the scan ends with ok = false
RECURSIVE seqScan(_, _, _)
seqScan(buffer, delivered, k) ==
    IF k > Len(buffer) THEN 0
    ELSE IF buffer[k].sequence = delivered[buffer[k].sender] THEN k
    ELSE seqScan(buffer, delivered, k + 1)

\* node.receive, one iteration of the outer loop that found a message:
\* n.buffer.Remove(e); n.delivered[deliver.sender]++; Printf
seqDeliver(s, k) ==
    LET e == s.buffer[k]
    IN  [s EXCEPT !.buffer = SubSeq(@, 1, k - 1) \o SubSeq(@, k + 1, Len(@)),
                  !.delivered[e.sender] = @ + 1,
                  !.l = Append(@, e)]

\* node.receive, outer loop: for { ...; if !ok { break }; ... }
RECURSIVE seqDrain(_)
seqDrain(s) ==
    LET k == seqScan(s.buffer, s.delivered, 1)
    IN  IF k = 0 THEN s ELSE seqDrain(seqDeliver(s, k))

\* mutant: one scan only, the outer loop is missing
seqReceive_Once(s, m) ==
    LET pushed == [s EXCEPT !.buffer = Append(@, m)]
        k == seqScan(pushed.buffer, pushed.delivered, 1)
    IN  IF k = 0 THEN pushed ELSE seqDeliver(pushed, k)

\* node.receive of the variant
seqReceive(s, m) == seqDrain([s EXCEPT !.buffer = Append(@, m)])

\* ----------------------------------------------------------------- actions

NoMessage == message(0, 0, "")

\* node.receive for the messages of q in turn, none of which makes
\* synchronized() true: clock update and queue of each
RECURSIVE receiveAll(_, _)
receiveAll(s, q) ==
    IF q = <<>> THEN s
    ELSE receiveAll(queue(syncClock(s, Head(q)), Head(q)), Tail(q))

\* main, startup: nodeCount n is read, the nodes are created and run. The
\* driver has let the clocks reach `clock` and has then issued the
\* broadcasts `sent`; node i has received and handled the messages
\* arrived[i], in that order and without a flush (the messages after the
\* first, which are the ones that can be in secondary, do not mention every
\* sender), and the other legs are still in flight.
Started(n, clock, sent, arrived) ==
    /\ participants = n
    /\ \A i \in 0 .. (n - 1) : \A k \in 1 .. Len(arrived[i]) :
          /\ arrived[i][k] \in sent
          /\ Cardinality(
                 { m.sender : m \in
                     { arrived[i][j] : j \in 2 .. k } }) < n
    /\ nodes = [i \in 0 .. (n - 1) |->
                  receiveAll([newNode(i) EXCEPT !.t = clock[i]], arrived[i])]
    /\ legs = { leg \in UNION { broadcaster(m, n) : m \in sent } :
                  \A k \in 1 .. Len(arrived[leg.to]) :
                      arrived[leg.to][k] # leg.m }
    /\ nsent = Cardinality(sent)
    /\ received = arrived
    /\ emitted = [i \in 0 .. (n - 1) |-> <<>>]
    /\ ticks = [i \in 0 .. (n - 1) |-> 0]
    /\ running = [i \in 0 .. (n - 1) |-> TRUE]
    /\ pcMain = "cmd"
    /\ mainI = 0
    /\ cur = [i \in 0 .. (n - 1) |->
                IF arrived[i] = <<>> THEN NoMessage
                ELSE arrived[i][Len(arrived[i])]]
    /\ flushM = [i \in 0 .. (n - 1) |-> NoMessage]
    /\ tMu = [i \in 0 .. (n - 1) |-> ""]
    /\ tWaitMu = [i \in 0 .. (n - 1) |-> ""]
    /\ bufferMu = [i \in 0 .. (n - 1) |-> ""]
    /\ receivedAtStop = [i \in 0 .. (n - 1) |-> 0]
    /\ networkJam = [i \in 0 .. (n - 1) |-> [j \in 0 .. (n - 1) |-> 0]]
    /\ njam = 0
    /\ spawned = {}
    /\ latency = {}
    /\ seqNodes = [i \in 0 .. (n - 1) |-> seqNewNode(i, n)]
    /\ seqLegs = {}
    /\ seqReceived = [i \in 0 .. (n - 1) |-> <<>>]

\* every goroutine of run() has entered its loop
Looping ==
    /\ aliveCount = participants
    /\ pcTick = [i \in Node |-> "loop"]
    /\ pcRecv = [i \in Node |-> "wait"]

\* ---- steps of the goroutines and of main: every step is one lock
\* acquisition (with the critical section up to the next acquisition), one
\* atomic load or store, or one channel receive

\* main, broadcast command: nodes[sender].send(data, lmin, lmax); send reads
\* n.t under n.tMu
Send(i) ==
    /\ pcMain = "cmd"
    /\ tMu[i] = ""
    /\ nsent < MaxSends
    /\ (nsent + 1) * participants <= MaxLegs
    /\ legs' = legs \cup broadcaster(message(i, nodes[i].t, Payload[nsent + 1]),
                                     participants)
    /\ nsent' = nsent + 1
    /\ UNCHANGED <<participants, extVars, nodes, pcRecv, received, emitted, ticks,
                   lifeVars, lockVars>>

\* run, first goroutine: n.pool.aliveCount.Add(1)
TickStart(i) ==
    /\ pcTick[i] = "spawned"
    /\ aliveCount' = aliveCount + 1
    /\ pcTick' = [pcTick EXCEPT ![i] = "loop"]
    /\ UNCHANGED <<participants, extVars, protoVars, running, pcMain, mainI, lockVars>>

\* iterations of the tick loops entered so far, over nodes 0 .. n - 1
RECURSIVE ticked(_)
ticked(n) ==
    IF n = 0 THEN 0
    ELSE ticks[n - 1] + (IF pcTick[n - 1] = "tick" THEN 1 ELSE 0) + ticked(n - 1)

\* run, first goroutine: for n.running.Load()
TickTest(i) ==
    /\ pcTick[i] = "loop"
    /\ running[i] => ticked(participants) < MaxTicks
    /\ pcTick' = [pcTick EXCEPT ![i] = IF running[i] THEN "tick" ELSE "stopping"]
    /\ UNCHANGED <<participants, extVars, protoVars, running, aliveCount, pcMain, mainI,
                   lockVars>>

\* run, first goroutine: n.tMu.Lock(); n.t++; n.tMu.Unlock(); time.Sleep
TickBody(i) ==
    /\ pcTick[i] = "tick"
    /\ tMu[i] = ""
    /\ nodes' = [nodes EXCEPT ![i] = tick(@)]
    /\ ticks' = [ticks EXCEPT ![i] = @ + 1]
    /\ pcTick' = [pcTick EXCEPT ![i] = "loop"]
    /\ UNCHANGED <<participants, extVars, legs, nsent, pcRecv, received, emitted,
                   running, aliveCount, pcMain, mainI, lockVars>>

\* run, first goroutine: n.pool.aliveCount.Add(-1)
TickExit(i) ==
    /\ pcTick[i] = "stopping"
    /\ aliveCount' = aliveCount - 1
    /\ pcTick' = [pcTick EXCEPT ![i] = "done"]
    /\ UNCHANGED <<participants, extVars, protoVars, running, pcMain, mainI, lockVars>>

\* mutant: the receive loop does not test the running flag
RecvTest_NoCheck(i) ==
    /\ pcRecv[i] = "test"
    /\ pcRecv' = [pcRecv EXCEPT ![i] = "wait"]
    /\ UNCHANGED <<participants, extVars, nodes, legs, nsent, received, emitted,
                   ticks, lifeVars, lockVars>>

\* run, second goroutine: for n.running.Load()
RecvTest(i) ==
    /\ pcRecv[i] = "test"
    /\ pcRecv' = [pcRecv EXCEPT ![i] = IF running[i] THEN "wait" ELSE "exited"]
    /\ UNCHANGED <<participants, extVars, nodes, legs, nsent, received, emitted, ticks,
                   lifeVars, lockVars>>

\* run, second goroutine: m, ok := <-n.broadcast
RecvTake(i) ==
    /\ pcRecv[i] = "wait"
    /\ \E leg \in legs :
        /\ leg.to = i
        /\ cur' = [cur EXCEPT ![i] = leg.m]
        /\ legs' = legs \ {leg}
        /\ received' = [received EXCEPT ![i] = Append(@, leg.m)]
    /\ pcRecv' = [pcRecv EXCEPT ![i] = "clock"]
    /\ UNCHANGED <<participants, extVars, nodes, nsent, emitted, ticks, lifeVars,
                   flushM, tMu, tWaitMu, bufferMu>>

\* receive: n.tMu.Lock(); sync lamport timestamp; n.tMu.Unlock()
RecvClock(i) ==
    /\ pcRecv[i] = "clock"
    /\ tMu[i] = ""
    /\ nodes' = [nodes EXCEPT ![i] = syncClock(@, cur[i])]
    /\ pcRecv' = [pcRecv EXCEPT ![i] = "queue"]
    /\ UNCHANGED <<participants, extVars, legs, nsent, received, emitted, ticks,
                   lifeVars, lockVars>>

\* queue: n.bufferMu.Lock()
QueueLock(i) ==
    /\ pcRecv[i] = "queue"
    /\ bufferMu[i] = ""
    /\ bufferMu' = [bufferMu EXCEPT ![i] = "recv"]
    /\ pcRecv' = [pcRecv EXCEPT ![i] = "queue_tWait"]
    /\ UNCHANGED <<participants, extVars, nodes, legs, nsent, received, emitted, ticks,
                   lifeVars, handVars, tMu, tWaitMu>>

\* queue: n.tWaitMu.Lock() ... n.tWaitMu.Unlock(); insertion;
\* n.bufferMu.Unlock()
QueueBody(i) ==
    /\ pcRecv[i] = "queue_tWait"
    /\ tWaitMu[i] = ""
    /\ nodes' = [nodes EXCEPT ![i] = queue(@, cur[i])]
    /\ bufferMu' = [bufferMu EXCEPT ![i] = ""]
    /\ pcRecv' = [pcRecv EXCEPT ![i] = "synchronized"]
    /\ UNCHANGED <<participants, extVars, legs, nsent, received, emitted, ticks,
                   lifeVars, handVars, tMu, tWaitMu>>

\* synchronized: n.bufferMu.Lock(); count the senders; n.bufferMu.Unlock()
SyncCheck(i) ==
    /\ pcRecv[i] = "synchronized"
    /\ bufferMu[i] = ""
    /\ pcRecv' = [pcRecv EXCEPT ![i] =
                    IF synchronized(nodes[i], participants)
                    THEN "flush" ELSE "test"]
    /\ UNCHANGED <<participants, extVars, nodes, legs, nsent, received, emitted, ticks,
                   lifeVars, lockVars>>

\* flush: n.bufferMu.Lock(); the first loop tests Front() and removes the
\* front of primary into m; the goroutine is then at n.tMu.Lock() (or, with
\* primary empty, at n.tWaitMu.Lock())
FlushLock(i) ==
    /\ pcRecv[i] = "flush"
    /\ bufferMu[i] = ""
    /\ bufferMu' = [bufferMu EXCEPT ![i] = "recv"]
    /\ emitted' = [emitted EXCEPT ![i] = Append(@, <<>>)]
    /\ IF Len(nodes[i].primaryBuffer) > 0
       THEN /\ nodes' = [nodes EXCEPT ![i] = removeFront(@)]
            /\ flushM' = [flushM EXCEPT ![i] = Head(nodes[i].primaryBuffer)]
            /\ pcRecv' = [pcRecv EXCEPT ![i] = "flush_t"]
       ELSE /\ pcRecv' = [pcRecv EXCEPT ![i] = "flush_tWait"]
            /\ UNCHANGED <<nodes, flushM>>
    /\ UNCHANGED <<participants, extVars, legs, nsent, received, ticks,
                   lifeVars, cur, tMu, tWaitMu>>

\* flush, first loop: n.tMu.Lock(); n.t++; Printf; n.tMu.Unlock(); the loop
\* tests Front() again and removes the next front into m, or ends
FlushDeliver(i) ==
    /\ pcRecv[i] = "flush_t"
    /\ tMu[i] = ""
    /\ LET s == deliver(nodes[i], flushM[i])
       IN  /\ emitted' = [emitted EXCEPT ![i][Len(emitted[i])] =
                             Append(@, s.l[Len(s.l)])]
           /\ IF Len(s.primaryBuffer) > 0
              THEN /\ nodes' = [nodes EXCEPT ![i] = removeFront(s)]
                   /\ flushM' = [flushM EXCEPT ![i] = Head(s.primaryBuffer)]
                   /\ pcRecv' = pcRecv
              ELSE /\ nodes' = [nodes EXCEPT ![i] = s]
                   /\ flushM' = [flushM EXCEPT ![i] = NoMessage]
                   /\ pcRecv' = [pcRecv EXCEPT ![i] = "flush_tWait"]
    /\ UNCHANGED <<participants, extVars, legs, nsent, received, ticks,
                   lifeVars, cur, tMu, tWaitMu, bufferMu>>

\* flush, second loop: n.tWaitMu.Lock(); promote; n.tWaitMu.Unlock();
\* n.bufferMu.Unlock()
FlushPromote(i) ==
    /\ pcRecv[i] = "flush_tWait"
    /\ tWaitMu[i] = ""
    /\ nodes' = [nodes EXCEPT ![i] = flushSecondary(@)]
    /\ bufferMu' = [bufferMu EXCEPT ![i] = ""]
    /\ pcRecv' = [pcRecv EXCEPT ![i] = "test"]
    /\ UNCHANGED <<participants, extVars, legs, nsent, received, emitted, ticks,
                   lifeVars, handVars, tMu, tWaitMu>>

\* main, state command: the loop over the nodes starts
CmdState ==
    /\ pcMain = "cmd"
    /\ pcMain' = "state_t"
    /\ mainI' = 0
    /\ UNCHANGED <<participants, extVars, protoVars, running, aliveCount, pcTick,
                   lockVars>>

\* main, state command: nodes[i].tMu.Lock()
StateLockT ==
    /\ pcMain = "state_t"
    /\ tMu[mainI] = ""
    /\ tMu' = [tMu EXCEPT ![mainI] = "main"]
    /\ pcMain' = "state_tWait"
    /\ UNCHANGED <<participants, extVars, protoVars, running, aliveCount, pcTick,
                   mainI, handVars, tWaitMu, bufferMu>>

\* main, state command: nodes[i].tWaitMu.Lock()
StateLockTWait ==
    /\ pcMain = "state_tWait"
    /\ tWaitMu[mainI] = ""
    /\ tWaitMu' = [tWaitMu EXCEPT ![mainI] = "main"]
    /\ pcMain' = "state_buffer"
    /\ UNCHANGED <<participants, extVars, protoVars, running, aliveCount, pcTick,
                   mainI, handVars, tMu, bufferMu>>

\* main, state command: nodes[i].bufferMu.Lock(); Printf; the three Unlock
StatePrint ==
    /\ pcMain = "state_buffer"
    /\ bufferMu[mainI] = ""
    /\ tMu' = [tMu EXCEPT ![mainI] = ""]
    /\ tWaitMu' = [tWaitMu EXCEPT ![mainI] = ""]
    /\ mainI' = mainI + 1
    /\ pcMain' = IF mainI + 1 < participants THEN "state_t" ELSE "cmd"
    /\ UNCHANGED <<participants, extVars, protoVars, running, aliveCount, pcTick,
                   handVars, bufferMu>>

\* main, broadcast command in the lock-level specification
CmdBroadcast(i) ==
    /\ nsent < MaxConcSends
    /\ (nsent + 1) * participants <= MaxConcLegs
    /\ Send(i)

\* main, exit command: break
CmdExit ==
    /\ pcMain = "cmd"
    /\ pcMain' = "stop"
    /\ mainI' = 0
    /\ UNCHANGED <<participants, extVars, protoVars, running, aliveCount, pcTick,
                   lockVars>>

\* main, shutdown: nodes[i].stop()
StopNode ==
    /\ pcMain = "stop"
    /\ running' = [running EXCEPT ![mainI] = FALSE]
    /\ receivedAtStop' = [receivedAtStop EXCEPT ![mainI] = Len(received[mainI])]
    /\ mainI' = mainI + 1
    /\ pcMain' = IF mainI + 1 < participants THEN "stop" ELSE "drain"
    /\ UNCHANGED <<participants, jamVars, seqVars, protoVars, aliveCount,
                   pcTick, lockVars>>

\* main, shutdown: for pool.aliveCount.Load() > 0 {} is left
WaitDrain ==
    /\ pcMain = "drain"
    /\ aliveCount = 0
    /\ pcMain' = "done"
    /\ UNCHANGED <<participants, extVars, protoVars, running, aliveCount, pcTick,
                   mainI, lockVars>>

TickStartStep == \E i \in Node : TickStart(i)
TickTestStep == \E i \in Node : TickTest(i)
TickBodyStep == \E i \in Node : TickBody(i)
TickExitStep == \E i \in Node : TickExit(i)
RecvTestStep == \E i \in Node : RecvTest(i)
RecvTakeStep == \E i \in Node : RecvTake(i)
RecvClockStep == \E i \in Node : RecvClock(i)
QueueLockStep == \E i \in Node : QueueLock(i)
QueueBodyStep == \E i \in Node : QueueBody(i)
SyncCheckStep == \E i \in Node : SyncCheck(i)
FlushLockStep == \E i \in Node : FlushLock(i)
FlushDeliverStep == \E i \in Node : FlushDeliver(i)
FlushPromoteStep == \E i \in Node : FlushPromote(i)
CmdBroadcastStep == \E i \in Node : CmdBroadcast(i)

\* ---- node-level specification: the goroutines of run() are in their loops
\* and main issues broadcast commands only

Init ==
    /\ \E n \in 1 .. MaxNodes : Started(n, [i \in 0 .. (n - 1) |-> 0], {},
                                     [i \in 0 .. (n - 1) |-> <<>>])
    /\ Looping

SendCommand == \E i \in Node : Send(i)

Next ==
    \/ TickTestStep
    \/ TickBodyStep
    \/ SendCommand
    \/ RecvTestStep
    \/ RecvTakeStep
    \/ RecvClockStep
    \/ QueueLockStep
    \/ QueueBodyStep
    \/ SyncCheckStep
    \/ FlushLockStep
    \/ FlushDeliverStep
    \/ FlushPromoteStep

Spec == Init /\ [][Next]_vars

\* ---- delivery specification: the broadcasts have been issued and every leg
\* is still in flight (sleeping); the tick loops and the receive handlers run

\* three nodes; node0 broadcast "A" at clock 5, node1 "B" at clock 5, node2
\* "C" at clock 6
ScenarioMessages ==
    {message(0, 5, "A"), message(1, 5, "B"), message(2, 6, "C")}

\* node0 and node2 have handled the three messages; the legs to node1 are in
\* flight
InitScenario ==
    Started(3, [i \in 0 .. 2 |-> IF i = 2 THEN 6 ELSE 5], ScenarioMessages,
            [i \in 0 .. 2 |->
               IF i = 1 THEN <<>>
               ELSE <<message(0, 5, "A"), message(1, 5, "B"),
                      message(2, 6, "C")>>])

\* two nodes; node0 broadcast "A" at clock 1 and "C", "E" at clock 2; node1
\* broadcast "B" at clock 1 and "D" at clock 2
WaveMessages ==
    {message(0, 1, "A"), message(1, 1, "B"), message(0, 2, "C"),
     message(1, 2, "D"), message(0, 2, "E")}

\* both nodes have handled "C"; the other legs are in flight
InitWave ==
    Started(2, [i \in 0 .. 1 |-> 2], WaveMessages,
            [i \in 0 .. 1 |-> <<message(0, 2, "C")>>])

InitInFlight ==
    /\ (InitScenario \/ InitWave)
    /\ Looping

NextInFlight ==
    \/ TickTestStep
    \/ TickBodyStep
    \/ RecvTestStep
    \/ RecvTakeStep
    \/ RecvClockStep
    \/ QueueLockStep
    \/ QueueBodyStep
    \/ SyncCheckStep
    \/ FlushLockStep
    \/ FlushDeliverStep
    \/ FlushPromoteStep

SpecInFlight == InitInFlight /\ [][NextInFlight]_vars

\* ---- lock-level specification: the goroutines of run() are spawned and not
\* yet scheduled; main issues broadcast, state and exit commands

InitConc ==
    /\ \E n \in 1 .. MaxNodes : Started(n, [i \in 0 .. (n - 1) |-> 0], {},
                                     [i \in 0 .. (n - 1) |-> <<>>])
    /\ aliveCount = 0
    /\ pcTick = [i \in Node |-> "spawned"]
    /\ pcRecv = [i \in Node |-> "test"]

NextConc ==
    \/ TickStartStep
    \/ TickTestStep
    \/ TickBodyStep
    \/ TickExitStep
    \/ RecvTestStep
    \/ RecvTakeStep
    \/ RecvClockStep
    \/ QueueLockStep
    \/ QueueBodyStep
    \/ SyncCheckStep
    \/ FlushLockStep
    \/ FlushDeliverStep
    \/ FlushPromoteStep
    \/ CmdState
    \/ StateLockT
    \/ StateLockTWait
    \/ StatePrint
    \/ CmdBroadcastStep
    \/ CmdExit
    \/ StopNode
    \/ WaitDrain

SpecConc == InitConc /\ [][NextConc]_vars

\* ---- jam specification: the broadcast and jam commands and the receive
\* handlers, with each delivery goroutine's read of the jam matrix as a step
\* of its own: the goroutine is spawned by `go` and reads networkJam when it is
\* scheduled, unsynchronised with main

\* main, broadcast command: send builds m and broadcaster spawns one
\* goroutine per node. History fields of a spawned goroutine: issued is the
\* jam entry of its link when the broadcast was issued, rewritten /
\* elsewhere tell whether a jam command has since set its link / another link
BroadcastSpawn(i) ==
    /\ pcMain = "cmd"
    /\ tMu[i] = ""
    /\ nsent < MaxJamSends
    /\ (nsent + 1) * participants <= MaxJamLegs
    /\ LET m == message(i, nodes[i].t, Payload[nsent + 1])
       IN  spawned' = spawned \cup
               { [m |-> leg.m, to |-> leg.to,
                  issued |-> jamOf(networkJam, leg.m, leg.to),
                  rewritten |-> FALSE, elsewhere |-> FALSE] :
                 leg \in broadcaster(m, participants) }
    /\ nsent' = nsent + 1
    /\ UNCHANGED <<participants, nodes, legs, pcRecv, received, emitted, ticks,
                   lifeVars, lockVars, receivedAtStop, networkJam, njam,
                   latency, seqVars>>

\* main, jam command
CmdJam ==
    /\ pcMain = "cmd"
    /\ njam < MaxJams
    /\ njam' = njam + 1
    /\ \E source \in Node : \E target \in Node : \E d \in JamLatency :
        /\ networkJam' = setJam(networkJam, source, target, d)
        /\ spawned' =
              { [leg EXCEPT
                   !.rewritten = @ \/ (leg.m.sender = source /\ leg.to = target),
                   !.elsewhere = @ \/ ~(leg.m.sender = source /\ leg.to = target)] :
                leg \in spawned }
    /\ UNCHANGED <<participants, protoVars, lifeVars, lockVars, receivedAtStop,
                   latency, seqVars>>

\* broadcaster, delivery goroutine: latency is computed from the jam matrix
\* as it is now; the goroutine then sleeps
LegLatency ==
    /\ \E leg \in spawned :
        /\ spawned' = spawned \ {leg}
        /\ latency' = latency \cup
               { [m |-> leg.m, to |-> leg.to, issued |-> leg.issued,
                  rewritten |-> leg.rewritten, elsewhere |-> leg.elsewhere,
                  jam |-> jamOf(networkJam, leg.m, leg.to)] }
        /\ legs' = legs \cup { [m |-> leg.m, to |-> leg.to] }
    /\ UNCHANGED <<participants, nodes, nsent, pcRecv, received, emitted, ticks,
                   lifeVars, lockVars, receivedAtStop, networkJam, njam,
                   seqVars>>

BroadcastSpawnCommand == \E i \in Node : BroadcastSpawn(i)

NextJam ==
    \/ TickTestStep
    \/ TickBodyStep
    \/ BroadcastSpawnCommand
    \/ CmdJam
    \/ LegLatency
    \/ RecvTestStep
    \/ RecvTakeStep
    \/ RecvClockStep
    \/ QueueLockStep
    \/ QueueBodyStep
    \/ SyncCheckStep
    \/ FlushLockStep
    \/ FlushDeliverStep
    \/ FlushPromoteStep

SpecJam == Init /\ [][NextJam]_vars

\* ---- lifecycle specification: the lock-level steps without the state
\* command, under the scheduling the Go runtime gives: a goroutine that can
\* take its next step eventually takes it, and main, once it has left the
\* command loop, runs the shutdown to its end

\* run, first goroutine
tickGoroutine(i) ==
    \/ TickStart(i)
    \/ TickTest(i)
    \/ TickBody(i)
    \/ TickExit(i)

\* run, second goroutine
recvGoroutine(i) ==
    \/ RecvTest(i)
    \/ RecvTake(i)
    \/ RecvClock(i)
    \/ QueueLock(i)
    \/ QueueBody(i)
    \/ SyncCheck(i)
    \/ FlushLock(i)
    \/ FlushDeliver(i)
    \/ FlushPromote(i)

NextLife ==
    \/ TickStartStep
    \/ TickTestStep
    \/ TickBodyStep
    \/ TickExitStep
    \/ RecvTestStep
    \/ RecvTakeStep
    \/ RecvClockStep
    \/ QueueLockStep
    \/ QueueBodyStep
    \/ SyncCheckStep
    \/ FlushLockStep
    \/ FlushDeliverStep
    \/ FlushPromoteStep
    \/ CmdBroadcastStep
    \/ CmdExit
    \/ StopNode
    \/ WaitDrain

FairLife ==
    /\ \A i \in 0 .. (MaxNodes - 1) :
          /\ WF_vars(pcMain # "done" /\ i \in Node /\ tickGoroutine(i))
          /\ WF_vars(pcMain # "done" /\ i \in Node /\ recvGoroutine(i))
    /\ WF_vars(StopNode \/ WaitDrain)

SpecLife == InitConc /\ [][NextLife]_vars /\ FairLife

\* ---- specification of the sequence-number variant
\* (src/unnamed/part_001): broadcast commands and receive handlers

\* broadcast commands issued so far in the variant
RECURSIVE seqSent(_)
seqSent(n) ==
    IF n = 0 THEN 0 ELSE seqNodes[n - 1].sendSeq + seqSent(n - 1)

\* main of the variant, broadcast command: nodes[sender].send(data, lmin, lmax)
SeqSend(i) ==
    /\ seqSent(participants) < MaxSeqSends
    /\ (seqSent(participants) + 1) * participants <= MaxSeqLegs
    /\ LET m == seqSendMessage(seqNodes[i], Payload[seqSent(participants) + 1])
       IN  seqLegs' = seqLegs \cup broadcaster(m, participants)
    /\ seqNodes' = [seqNodes EXCEPT ![i] = seqSend(@)]
    /\ UNCHANGED <<participants, protoVars, lifeVars, lockVars, receivedAtStop,
                   jamVars, seqReceived>>

\* run of the variant, second goroutine: m := <-n.broadcast; n.receive(m)
SeqReceive(i) ==
    /\ \E leg \in seqLegs :
        /\ leg.to = i
        /\ seqNodes' = [seqNodes EXCEPT ![i] = seqReceive(@, leg.m)]
        /\ seqLegs' = seqLegs \ {leg}
        /\ seqReceived' = [seqReceived EXCEPT ![i] = Append(@, leg.m)]
    /\ UNCHANGED <<participants, protoVars, lifeVars, lockVars, receivedAtStop,
                   jamVars>>

SeqSendCommand == \E i \in Node : SeqSend(i)
SeqReceiveLoop == \E i \in Node : SeqReceive(i)

NextSeq ==
    \/ SeqSendCommand
    \/ SeqReceiveLoop

SpecSeq == Init /\ [][NextSeq]_vars

\* ------------------------------------------------------------ observations

\* the message a delivery line reports
lineMessage(line) == message(line.sender, line.t, line.data)

\* the messages of a sequence of delivery lines, in order
lineMessages(lines) == [k \in 1 .. Len(lines) |-> lineMessage(lines[k])]

\* position of message m in sequence q (0 when absent)
position(q, m) ==
    IF \E k \in 1 .. Len(q) : q[k] = m
    THEN CHOOSE k \in 1 .. Len(q) : q[k] = m
    ELSE 0

Range(q) == { q[k] : k \in 1 .. Len(q) }

senders(buffer) == { buffer[k].sender : k \in 1 .. Len(buffer) }

ascending(buffer) ==
    \A k \in 1 .. Len(buffer) : \A j \in 1 .. Len(buffer) :
        k < j => buffer[k].t <= buffer[j].t

\* number of messages of sender s that node i has received
receivedFrom(i, s) ==
    Cardinality({ k \in 1 .. Len(received[i]) : received[i][k].sender = s })

\* node i's receive goroutine is between two calls of receive
idle(i) == pcRecv[i] \in {"test", "wait"}

\* the message node i has taken from its channel and not yet queued
inHand(i) ==
    IF pcRecv[i] \in {"clock", "queue", "queue_tWait"} THEN <<cur[i]>> ELSE <<>>

\* the message flush has removed from primary and not yet printed, for a
\* receive goroutine at position pc whose flush holds m
flushHand(pc, m) == IF pc = "flush_t" THEN <<m>> ELSE <<>>

\* flushes node i has performed or is about to perform
flushes(i) == Len(emitted[i]) + (IF pcRecv[i] = "flush" THEN 1 ELSE 0)

\* greatest timestamp of a non-empty buffer
maxT(buffer) ==
    CHOOSE t \in { buffer[k].t : k \in 1 .. Len(buffer) } :
        \A k \in 1 .. Len(buffer) : buffer[k].t <= t

\* ------------------------------------------------------------------ claims

\* C1: for any two nodes p and q and any two messages that p emits in one
\* flush and q emits in one flush, p and q emit the two in the same
\* relative order (equal timestamps included).
C1_CrossNodeOrder ==
    \A p \in Node : \A q \in Node :
        \A a \in 1 .. Len(emitted[p]) : \A b \in 1 .. Len(emitted[q]) :
            LET fp == lineMessages(emitted[p][a])
                fq == lineMessages(emitted[q][b])
            IN  \A m1 \in Range(fp) \cap Range(fq) :
                \A m2 \in Range(fp) \cap Range(fq) :
                    position(fp, m1) < position(fp, m2)
                        => position(fq, m1) < position(fq, m2)

\* node1 of the three-node scenario has received "A", "B" and "C" and
\* nothing else
ScenarioReceived ==
    /\ participants = 3
    /\ Len(received[1]) = 3
    /\ Range(received[1]) = ScenarioMessages

\* C2 as stated: once node1 has received all three, in any arrival order,
\* its secondary buffer mentions senders {0,1,2}, a flush is triggered and
\* the flush emits "A", "B", "C" in that order.
C2_ScenarioFlushesABC ==
    ScenarioReceived =>
        /\ pcRecv[1] = "synchronized"
               => senders(nodes[1].secondaryBuffer) = {0, 1, 2}
        /\ idle(1) =>
               /\ Len(emitted[1]) = 1
               /\ [k \in 1 .. Len(emitted[1][1]) |-> emitted[1][1][k].data]
                      = <<"A", "B", "C">>

\* C2 amended: once node1 has received exactly the three, in any arrival
\* order, no flush is triggered and nothing is emitted; when the third has
\* been handled the first arrival sits in primary, secondary mentions at
\* most two senders and all three messages are still buffered.
C2_ScenarioStaysBuffered ==
    ScenarioReceived =>
        /\ pcRecv[1] \notin {"flush", "flush_t", "flush_tWait"}
        /\ emitted[1] = <<>>
        /\ nodes[1].l = <<>>
        /\ Cardinality(senders(nodes[1].secondaryBuffer)) <= 2
        /\ idle(1) =>
               /\ received[1][1] \in Range(nodes[1].primaryBuffer)
               /\ Range(nodes[1].primaryBuffer)
                      \cup Range(nodes[1].secondaryBuffer) = ScenarioMessages
               /\ Len(nodes[1].primaryBuffer) + Len(nodes[1].secondaryBuffer)
                      = 3

\* C2 witness: node1 has received and handled the three messages, "C" last
C2_Witness ==
    /\ ScenarioReceived
    /\ idle(1)
    /\ received[1][3].data = "C"

\* C4: every message that is in primary when a flush starts is emitted
\* exactly once by that flush and by no other flush; the emitted sequence
\* is ascending by timestamp, equal timestamps in the order in which the
\* node inserted them. (From flush's Lock to the end of its first loop the
\* lines of the flush, followed by the removed message that is about to be
\* printed and by what is left of primary, are the primary of the start;
\* the first loop ends with primary empty.)
C4_FlushCompleteness ==
    /\ [][\A i \in Node :
            /\ (pcRecv[i] = "flush" /\ pcRecv'[i] # "flush") =>
                   /\ pcRecv'[i] \in {"flush_t", "flush_tWait"}
                   /\ emitted'[i] = Append(emitted[i], <<>>)
                   /\ flushHand(pcRecv'[i], flushM'[i])
                          \o nodes'[i].primaryBuffer
                        = nodes[i].primaryBuffer
            /\ (pcRecv[i] = "flush_t" /\ pcRecv'[i] # "flush_t") =>
                   pcRecv'[i] = "flush_tWait"
            /\ pcRecv[i] = "flush_t" =>
                   /\ Len(emitted'[i]) = Len(emitted[i])
                   /\ lineMessages(emitted'[i][Len(emitted'[i])])
                          \o flushHand(pcRecv'[i], flushM'[i])
                          \o nodes'[i].primaryBuffer
                        = lineMessages(emitted[i][Len(emitted[i])])
                              \o flushHand(pcRecv[i], flushM[i])
                              \o nodes[i].primaryBuffer
            /\ pcRecv[i] = "flush_tWait" => emitted'[i] = emitted[i]
         ]_vars
    /\ [](\A i \in Node :
            pcRecv[i] = "flush_tWait" => nodes[i].primaryBuffer = <<>>)
    /\ [](\A i \in Node : \A f \in 1 .. Len(emitted[i]) :
            LET out == lineMessages(emitted[i][f])
            IN  /\ Cardinality(Range(out)) = Len(out)
                /\ \A g \in 1 .. Len(emitted[i]) :
                       g # f => Range(lineMessages(emitted[i][g]))
                                    \cap Range(out) = {}
                /\ \A k \in 1 .. Len(out) : \A j \in 1 .. Len(out) :
                       k < j =>
                           /\ out[k].t <= out[j].t
                           /\ out[k].t = out[j].t =>
                                  position(received[i], out[k])
                                      < position(received[i], out[j]))

\* C4 witness: a flush has emitted two messages with equal timestamps
C4_Witness ==
    \E i \in Node : \E f \in 1 .. Len(emitted[i]) :
        /\ Len(emitted[i][f]) >= 2
        /\ emitted[i][f][1].t = emitted[i][f][2].t

\* C5: after any insert, synchronized() holds, and receive() goes on to
\* flush, exactly when the distinct senders among the messages of secondary
\* number N; primary does not count, and a further message of a sender
\* already in secondary does not make it true. (receive() is in flush
\* only with N senders in secondary, and with N senders in secondary it is
\* at the evaluation of synchronized() or in the flush that follows.)
C5_Synchronized ==
    \A i \in Node :
        /\ pcRecv[i] \in {"flush", "flush_t", "flush_tWait"}
               => Cardinality(senders(nodes[i].secondaryBuffer)) = participants
        /\ Cardinality(senders(nodes[i].secondaryBuffer)) = participants
               => pcRecv[i] \in {"synchronized", "flush", "flush_t",
                                 "flush_tWait"}

\* C5 witness: two messages of one sender wait in secondary, the other
\* sender is only in primary, and no flush was triggered
C5_Witness ==
    \E i \in Node :
        /\ participants = 2
        /\ idle(i)
        /\ Len(nodes[i].secondaryBuffer) = 2
        /\ Cardinality(senders(nodes[i].secondaryBuffer)) = 1
        /\ senders(nodes[i].primaryBuffer) \cup senders(nodes[i].secondaryBuffer)
               = Node

\* C6: in every reachable state both buffers of every node are ascending
\* (non-decreasing) by timestamp.
C6_BuffersSorted ==
    \A i \in Node :
        /\ ascending(nodes[i].primaryBuffer)
        /\ ascending(nodes[i].secondaryBuffer)

\* C6 witness: after a flush, a message older than the promoted wave has
\* been inserted in front of it
C6_Witness ==
    \E i \in Node :
        /\ Len(emitted[i]) >= 1
        /\ Len(nodes[i].primaryBuffer) >= 2
        /\ nodes[i].primaryBuffer[1].t < nodes[i].primaryBuffer[2].t
        /\ position(received[i], nodes[i].primaryBuffer[1])
               > position(received[i], nodes[i].primaryBuffer[2])

\* C7 as stated: in every reachable state each message a node has received
\* occurs exactly once across primary, secondary and the node's delivery
\* lines.
C7_NoDuplicationNoLoss ==
    \A i \in Node :
        LET held == nodes[i].primaryBuffer \o nodes[i].secondaryBuffer
                        \o lineMessages(nodes[i].l)
        IN  /\ Len(held) = Len(received[i])
            /\ Range(held) = Range(received[i])
            /\ Cardinality(Range(held)) = Len(held)

\* C7 amended: in every reachable state each message a node has received
\* occurs exactly once across primary, secondary, the node's delivery
\* lines and the messages its receive goroutine holds in a local variable
\* (taken from the channel and not yet inserted by queue, or removed from
\* primary by flush and not yet printed).
C7_HeldExactlyOnce ==
    \A i \in Node :
        LET held == nodes[i].primaryBuffer \o nodes[i].secondaryBuffer
                        \o lineMessages(nodes[i].l) \o inHand(i)
                        \o flushHand(pcRecv[i], flushM[i])
        IN  /\ Len(held) = Len(received[i])
            /\ Range(held) = Range(received[i])
            /\ Cardinality(Range(held)) = Len(held)

\* C7 witness: a node that has delivered before is in a flush, its
\* secondary still full, with a message removed from primary and not yet
\* printed
C7_Witness ==
    \E i \in Node :
        /\ pcRecv[i] = "flush_t"
        /\ Len(emitted[i]) >= 2
        /\ nodes[i].l # <<>>
        /\ nodes[i].secondaryBuffer # <<>>
        /\ flushM[i] \notin Range(nodes[i].primaryBuffer)

\* the lock, by holder, that main's state command is blocked on at node i
mainBlockedBy(i) ==
    IF mainI # i THEN ""
    ELSE IF pcMain = "state_t" THEN tMu[i]
    ELSE IF pcMain = "state_tWait" THEN tWaitMu[i]
    ELSE IF pcMain = "state_buffer" THEN bufferMu[i]
    ELSE ""

\* the lock, by holder, that node i's receive goroutine is blocked on
recvBlockedBy(i) ==
    IF pcRecv[i] = "clock" THEN tMu[i]
    ELSE IF pcRecv[i] \in {"queue", "synchronized", "flush"} THEN bufferMu[i]
    ELSE IF pcRecv[i] = "queue_tWait" THEN tWaitMu[i]
    ELSE IF pcRecv[i] = "flush_t" THEN tMu[i]
    ELSE IF pcRecv[i] = "flush_tWait" THEN tWaitMu[i]
    ELSE ""

\* C3: the state query, queue and flush take a node's locks in one fixed
\* order, so no interleaving of a state query with the node's receive
\* processing and tick loop reaches a state where the state query waits for
\* a lock the receive goroutine holds while the receive goroutine waits for
\* a lock the state query holds.
C3_NoLockDeadlock ==
    \A i \in Node :
        ~(mainBlockedBy(i) = "recv" /\ recvBlockedBy(i) = "main")

\* C8: under every interleaving of tick loop, receive handler and flush a
\* node's clock never decreases; each tick, each receive update and each
\* delivery of a flush strictly increases it, and no increment is lost: the
\* clock is at least the number of ticks, receive updates and deliveries.
C8_ClockMonotone ==
    /\ [][\A i \in Node :
            /\ nodes'[i].t >= nodes[i].t
            /\ ticks'[i] # ticks[i] => nodes'[i].t > nodes[i].t
            /\ (pcRecv[i] = "clock" /\ pcRecv'[i] # "clock")
                   => nodes'[i].t > nodes[i].t
            /\ Len(nodes'[i].l) # Len(nodes[i].l) => nodes'[i].t > nodes[i].t
         ]_vars
    /\ [](\A i \in Node :
            nodes[i].t >= ticks[i] + Len(nodes[i].l) + Len(received[i])
                              - (IF pcRecv[i] = "clock" THEN 1 ELSE 0))

\* C8 witness: in the middle of a flush, after a delivery and before the
\* next one (its message already removed from primary), the tick loop has
\* advanced the clock
C8_Witness ==
    \E i \in Node :
        /\ pcRecv[i] = "flush_t"
        /\ nodes[i].l # <<>>
        /\ Len(emitted[i][Len(emitted[i])]) >= 1
        /\ nodes[i].t > nodes[i].l[Len(nodes[i].l)].clock

\* C9: when a node finishes the clock update for a received message m its
\* clock is max(clock before, m.t) + 1, so greater than m.t; every delivery
\* line carries a clock greater than the timestamp of the delivered message.
C9_LamportReceive ==
    /\ [][\A i \in Node :
            (pcRecv[i] = "clock" /\ pcRecv'[i] # "clock") =>
                LET m == received[i][Len(received[i])]
                IN  /\ m = cur[i]
                    /\ nodes'[i].t
                          = (IF nodes[i].t > m.t THEN nodes[i].t ELSE m.t) + 1
                    /\ nodes'[i].t > m.t
         ]_vars
    /\ [](\A i \in Node : \A k \in 1 .. Len(nodes[i].l) :
            nodes[i].l[k].clock > nodes[i].l[k].t)

\* C9 witness: a node has delivered a message of another node that was
\* stamped after that node's clock had advanced
C9_Witness ==
    \E i \in Node : \E k \in 1 .. Len(nodes[i].l) :
        /\ nodes[i].l[k].sender # i
        /\ nodes[i].l[k].t >= 1

\* C10: after stop() on every node, once the shutdown wait has observed
\* aliveCount = 0, every node's lifecycle (tick) goroutine has exited.
C10_DrainMeansExited ==
    pcMain = "done" => \A i \in Node : pcTick[i] = "done"

\* C11: after stop() has flipped a node's running flag, the node's tick loop
\* and its receive loop both eventually terminate.
C11_LoopsTerminate ==
    \A i \in 0 .. (MaxNodes - 1) :
        (i \in Node /\ ~running[i])
            ~> (i \in Node /\ pcTick[i] = "done" /\ pcRecv[i] = "exited")

\* C12: a jam command performed after a broadcast has been issued never
\* changes the extra delay of a delivery leg of that broadcast: every leg
\* uses the jam entry that was in the matrix when its broadcast was issued.
C12_JamAtIssue ==
    \A r \in latency : r.jam = r.issued

\* C13: a jam command changes only the entry (source, target) of the matrix
\* and no clock, buffer or delivery leg; a leg reads the entry of its own
\* link, and a leg whose link no jam command has set since its broadcast
\* was issued gets the extra delay of the time of issue, whatever was set
\* on other links in between.
C13_JamIsolation ==
    /\ [][networkJam' # networkJam =>
            /\ \E a \in Node : \E b \in Node :
                   \A c \in Node : \A d \in Node :
                       <<c, d>> # <<a, b>> => networkJam'[c][d] = networkJam[c][d]
            /\ nodes' = nodes
            /\ legs' = legs
            /\ latency' = latency
         ]_vars
    /\ [][\A r \in latency' \ latency : r.jam = networkJam[r.m.sender][r.to]]_vars
    /\ [](\A r \in latency : ~r.rewritten => r.jam = r.issued)

\* C13 witness: a leg from C to B has read the extra delay 0 of its link
\* although, after its broadcast was issued, the entry (A, B) of another
\* sender A was set to 300
C13_Witness ==
    \E r \in latency : \E a \in Node :
        /\ a # r.m.sender
        /\ r.elsewhere
        /\ ~r.rewritten
        /\ r.jam = 0
        /\ networkJam[a][r.to] = 300

\* C14: at every node the number of flushes performed so far is at most the
\* number of messages the node has received from any one participant; so a
\* participant that broadcast once allows at most one flush, and while some
\* participant has not broadcast no node emits a delivery.
C14_StallBound ==
    \A i \in Node : \A s \in Node :
        /\ flushes(i) <= receivedFrom(i, s)
        /\ receivedFrom(i, s) = 0 => nodes[i].l = <<>>

\* C14 witness: a node has flushed once, has received one message of one
\* sender and two or more of another
C14_Witness ==
    \E i \in Node : \E s \in Node : \E r \in Node :
        /\ Len(emitted[i]) = 1
        /\ receivedFrom(i, s) = 1
        /\ receivedFrom(i, r) >= 2
        /\ idle(i)

\* C15: immediately after every flush tWait equals the greatest timestamp
\* among the messages the flush moved from secondary into primary; the
\* threshold before the flush is never greater than all moved messages.
C15_ThresholdAfterFlush ==
    [][\A i \in Node :
        (pcRecv[i] = "flush_tWait" /\ pcRecv'[i] # "flush_tWait") =>
            LET moved == nodes[i].secondaryBuffer
            IN  /\ moved # <<>>
                /\ nodes'[i].primaryBuffer = moved
                /\ nodes[i].tWait <= maxT(moved)
                /\ nodes'[i].tWait = maxT(moved)
      ]_vars

\* C15 witness: a flush has moved messages of different timestamps and has
\* raised tWait above the timestamp that seeded the first wave
C15_Witness ==
    \E i \in Node :
        /\ idle(i)
        /\ Len(emitted[i]) = 1
        /\ nodes[i].secondaryBuffer = <<>>
        /\ Len(nodes[i].primaryBuffer) >= 2
        /\ nodes[i].primaryBuffer[1].t < nodes[i].tWait
        /\ nodes[i].tWait = maxT(nodes[i].primaryBuffer)
        /\ nodes[i].tWait > received[i][1].t
        /\ Len(received[i]) = Len(nodes[i].l) + Len(nodes[i].primaryBuffer)

\* C16: at a single node the timestamps of the emitted deliveries are
\* non-decreasing over the whole run: a message emitted by a later flush
\* never has a smaller timestamp than a message emitted by an earlier
\* flush, for every arrival order of delayed messages.
C16_TimestampOrder ==
    \A i \in Node :
        \A k \in 1 .. Len(nodes[i].l) : \A j \in 1 .. Len(nodes[i].l) :
            k < j => nodes[i].l[k].t <= nodes[i].l[j].t

\* C17: in every state of a node between receive operations every message
\* in primary has a timestamp less than or equal to tWait and every message
\* in secondary has a timestamp greater than or equal to tWait.
C17_ThresholdSeparation ==
    \A i \in Node :
        idle(i) =>
            /\ \A k \in 1 .. Len(nodes[i].primaryBuffer) :
                   nodes[i].primaryBuffer[k].t <= nodes[i].tWait
            /\ \A k \in 1 .. Len(nodes[i].secondaryBuffer) :
                   nodes[i].secondaryBuffer[k].t >= nodes[i].tWait

\* C17 witness: primary holds a late message older than tWait next to the
\* message that set tWait, and secondary holds a newer message
C17_Witness ==
    \E i \in Node :
        /\ idle(i)
        /\ Len(nodes[i].primaryBuffer) >= 2
        /\ nodes[i].primaryBuffer[1].t < nodes[i].tWait
        /\ nodes[i].primaryBuffer[2].t = nodes[i].tWait
        /\ nodes[i].secondaryBuffer # <<>>
        /\ nodes[i].secondaryBuffer[1].t > nodes[i].tWait

\* C18 as stated: once a node has received a message its primary buffer is
\* never empty again (so a non-empty secondary implies a non-empty
\* primary), and as every flush leaves the promoted wave undelivered, at
\* least one received message has not been emitted.
C18_ResidualWave ==
    \A i \in Node :
        /\ received[i] # <<>> =>
               /\ nodes[i].primaryBuffer # <<>>
               /\ Len(nodes[i].l) < Len(received[i])
        /\ nodes[i].secondaryBuffer # <<>> => nodes[i].primaryBuffer # <<>>

\* C18 amended: once a node has inserted a message its primary buffer is
\* non-empty whenever the node's buffer lock is free (so, with the lock
\* free, a non-empty secondary implies a non-empty primary), and as every
\* flush leaves the promoted wave undelivered, at least one received
\* message has not been emitted.
C18_ResidualWaveUnlocked ==
    \A i \in Node :
        /\ received[i] # <<>> => Len(nodes[i].l) < Len(received[i])
        /\ bufferMu[i] = "" =>
               /\ Len(received[i]) > Len(inHand(i))
                      => nodes[i].primaryBuffer # <<>>
               /\ nodes[i].secondaryBuffer # <<>>
                      => nodes[i].primaryBuffer # <<>>

\* C18 witness: every broadcast has reached the node, the node has flushed,
\* and the wave promoted by the last flush is still in primary
C18_Witness ==
    \E i \in Node :
        /\ nsent >= 3
        /\ legs = {}
        /\ idle(i)
        /\ bufferMu[i] = ""
        /\ Len(emitted[i]) >= 1
        /\ nodes[i].secondaryBuffer = <<>>
        /\ nodes[i].primaryBuffer # <<>>

\* C19: after stop() on a node its receive loop takes and processes at most
\* one further message, and only if it was already waiting on the channel,
\* because the running flag is tested only after the channel receive has
\* returned and the message has been handled; once the loop has exited it
\* takes nothing more, so every delivery leg that targets the node stays
\* blocked.
C19_ReceiveAfterStop ==
    /\ [](\A i \in Node :
            /\ ~running[i] => Len(received[i]) <= receivedAtStop[i] + 1
            /\ pcRecv[i] = "exited" =>
                   /\ ~running[i]
                   /\ Len(nodes[i].primaryBuffer) + Len(nodes[i].secondaryBuffer)
                          + Len(nodes[i].l) = Len(received[i]))
    /\ [][\A i \in Node :
            /\ (~running[i] /\ received'[i] # received[i]) =>
                   /\ pcRecv[i] = "wait"
                   /\ Len(received[i]) = receivedAtStop[i]
            /\ pcRecv[i] = "exited" =>
                   /\ pcRecv'[i] = "exited"
                   /\ received'[i] = received[i]
                   /\ { leg \in legs : leg.to = i } \subseteq legs'
         ]_vars

\* C19 witness: a stopped node has taken one message after stop(), its
\* receive loop has exited, and a delivery leg that targets it is blocked
C19_Witness ==
    \E i \in Node :
        /\ pcRecv[i] = "exited"
        /\ Len(received[i]) = receivedAtStop[i] + 1
        /\ \E leg \in legs : leg.to = i

\* the messages of sender s in sequence q, in order
RECURSIVE fromSender(_, _)
fromSender(q, s) ==
    IF q = <<>> THEN <<>>
    ELSE IF Head(q).sender = s THEN <<Head(q)>> \o fromSender(Tail(q), s)
    ELSE fromSender(Tail(q), s)

\* C20: in the sequence-number variant, at every node and for every sender
\* s, the k-th delivery from s has sequence k - 1 and delivered[s] is the
\* number of deliveries from s, for every arrival order; after receive
\* returns the buffer holds no message whose sequence equals
\* delivered[sender], every received message is either delivered or
\* buffered, and a message is delivered as soon as all earlier-sequenced
\* messages of its sender have been received.
C20_SequenceOrder ==
    \A i \in Node :
        /\ \A s \in Node :
              LET out == fromSender(seqNodes[i].l, s)
              IN  /\ \A k \in 1 .. Len(out) : out[k].sequence = k - 1
                  /\ seqNodes[i].delivered[s] = Len(out)
        /\ \A k \in 1 .. Len(seqNodes[i].buffer) :
              seqNodes[i].buffer[k].sequence
                  # seqNodes[i].delivered[seqNodes[i].buffer[k].sender]
        /\ Len(seqNodes[i].l) + Len(seqNodes[i].buffer) = Len(seqReceived[i])
        /\ Range(seqNodes[i].l) \cup Range(seqNodes[i].buffer)
               = Range(seqReceived[i])
        /\ \A m \in Range(seqReceived[i]) :
              (\A q \in 0 .. (m.sequence - 1) :
                   \E e \in Range(seqReceived[i]) :
                       e.sender = m.sender /\ e.sequence = q)
                  <=> m \in Range(seqNodes[i].l)

\* C20 witness: a node received a sender's messages 2 and 1 before its
\* message 0, held them in the buffer and has delivered the three
C20_Witness ==
    \E i \in Node : \E s \in Node :
        /\ Len(seqReceived[i]) >= 3
        /\ seqReceived[i][1].sender = s /\ seqReceived[i][1].sequence = 2
        /\ \E k \in 2 .. Len(seqReceived[i]) :
              /\ seqReceived[i][k].sender = s
              /\ seqReceived[i][k].sequence = 0
              /\ \E j \in 2 .. (k - 1) :
                    seqReceived[i][j].sender = s /\ seqReceived[i][j].sequence = 1
        /\ seqNodes[i].delivered[s] = 3

====
